---------------------------- MODULE Spec2Model ----------------------------
(***************************************************************************)
(* Model of image-processor/autoScript.py: the Flask route POST /process   *)
(* (process_image).  Every request is one run of the handler; the handlers *)
(* of different requests run in threads of the same process and share one  *)
(* thing, the file output.jpg in the working directory.                    *)
(*                                                                         *)
(* A form field is a sequence of one-character strings, an upload is a     *)
(* record describing what the codec finds in the uploaded bytes, and the   *)
(* content of a file is a record describing the picture encoded in it.     *)
(***************************************************************************)
EXTENDS Integers, Sequences, FiniteSets, TLC

\* Number of requests the server receives in a run.
NumRequests == 2

Requests == 1..NumRequests

\* Exception-free handler steps record no exception.
None == "None"

----------------------------------------------------------------------------
(* int(str) of lines 13 and 14 *)

Whitespace == {" ", "\t", "\n", "\r", "\f"}

DigitVal ==
    ("0" :> 0) @@ ("1" :> 1) @@ ("2" :> 2) @@ ("3" :> 3) @@ ("4" :> 4) @@
    ("5" :> 5) @@ ("6" :> 6) @@ ("7" :> 7) @@ ("8" :> 8) @@ ("9" :> 9)

RECURSIVE LStrip(_)
LStrip(s) ==
    IF s # <<>> /\ Head(s) \in Whitespace THEN LStrip(Tail(s)) ELSE s

RECURSIVE RStrip(_)
RStrip(s) ==
    IF s # <<>> /\ s[Len(s)] \in Whitespace
    THEN RStrip(SubSeq(s, 1, Len(s) - 1))
    ELSE s

RECURSIVE DigitsValue(_)
DigitsValue(s) ==
    IF s = <<>> THEN 0
    ELSE DigitsValue(SubSeq(s, 1, Len(s) - 1)) * 10 + DigitVal[s[Len(s)]]

\* A digit string as int() accepts it: digits, with single underscores
\* allowed between two digits.
WellFormedDigits(s) ==
    /\ s # <<>>
    /\ \A i \in 1..Len(s) : s[i] \in DOMAIN DigitVal \/ s[i] = "_"
    /\ s[1] # "_" /\ s[Len(s)] # "_"
    /\ \A i \in 1..(Len(s) - 1) : ~(s[i] = "_" /\ s[i + 1] = "_")

\* int(s): surrounding whitespace is dropped, one sign is allowed, the rest
\* must be a well-formed digit string; anything else raises ValueError
\* (ok = FALSE).
PyInt(s) ==
    LET t      == RStrip(LStrip(s))
        signed == t # <<>> /\ Head(t) \in {"+", "-"}
        body   == IF signed THEN Tail(t) ELSE t
        digits == SelectSeq(body, LAMBDA c : c # "_")
    IN  IF ~WellFormedDigits(body)
        THEN [ok |-> FALSE, val |-> 0]
        ELSE [ok |-> TRUE,
              val |-> IF signed /\ Head(t) = "-"
                      THEN 0 - DigitsValue(digits)
                      ELSE DigitsValue(digits)]

----------------------------------------------------------------------------
(* The requests a client can send *)

\* Uploaded files: what the bytes hold.  overCap marks an upload larger than
\* the size cap a deployment would configure; the handler never looks at the
\* size of the upload.
NoUpload == [kind |-> "absent", pix |-> "-", fmt |-> "-", w |-> 0, h |-> 0, overCap |-> FALSE]
PngA    == [kind |-> "image", pix |-> "A", fmt |-> "PNG",  w |-> 4, h |-> 3, overCap |-> FALSE]
JpegB   == [kind |-> "image", pix |-> "B", fmt |-> "JPEG", w |-> 1, h |-> 1, overCap |-> FALSE]
HugeC   == [kind |-> "image", pix |-> "C", fmt |-> "PNG",  w |-> 2, h |-> 2, overCap |-> TRUE]
Garbage == [kind |-> "garbage", pix |-> "G", fmt |-> "TXT", w |-> 0, h |-> 0, overCap |-> FALSE]

\* A form field: present with its text, or absent from the form.
Field(text) == [present |-> TRUE, text |-> text]
NoField == [present |-> FALSE, text |-> <<>>]

MkReq(u, fw, fh) == [image |-> u, width |-> fw, height |-> fh]

\* No request yet, no picture in hand, no file on disk, no response yet.
NoRequest == MkReq(NoUpload, NoField, NoField)
NoImage == [pix |-> "-", fmt |-> "-", w |-> 0, h |-> 0]
NoContent == [exists |-> FALSE, pix |-> "-", w |-> 0, h |-> 0, fmt |-> "-", complete |-> FALSE]
NoResponse == [status |-> 0, ctype |-> "-", body |-> NoContent, exc |-> None, line |-> 0]

\* The multipart forms tried: every way the handler can end, twice where two
\* different pictures are needed.
Inputs ==
    { MkReq(NoUpload, Field(<<"2">>),           Field(<<"1">>)),
      MkReq(PngA,     NoField,                  Field(<<"1">>)),
      MkReq(PngA,     Field(<<"a", "b">>),      Field(<<"1">>)),
      MkReq(PngA,     Field(<<"2">>),           NoField),
      MkReq(PngA,     Field(<<"2">>),           Field(<<"1", ".", "5">>)),
      MkReq(Garbage,  Field(<<"2">>),           Field(<<"1">>)),
      MkReq(PngA,     Field(<<"0">>),           Field(<<"1">>)),
      MkReq(PngA,     Field(<<"2">>),           Field(<<"-", "1">>)),
      MkReq(PngA,     Field(<<"2">>),           Field(<<"1">>)),
      MkReq(JpegB,    Field(<<" ", "3">>),      Field(<<"+", "2", " ">>)),
      MkReq(HugeC,    Field(<<"1">>),           Field(<<"1">>)),
      MkReq(PngA,     Field(<<"7", "0", "0", "0", "0">>), Field(<<"1">>)) }

----------------------------------------------------------------------------
(* State *)

VARIABLES
    debug,    \* app.debug: TRUE when started by app.run(debug=True)
    pc,       \* pc[r]: where request r's handler stands
    req,      \* req[r]: the form of request r (NoRequest before it arrives)
    width,    \* width[r], height[r]: the handler's locals of lines 13, 14
    height,
    img,      \* img[r]: the wand Image of line 16 (NoImage outside the with block)
    resp,     \* resp[r]: the response sent for r (NoResponse while it runs)
    file,     \* content of output.jpg (NoContent: the file does not exist)
    wrote     \* history: the requests whose handler has written output.jpg

vars == <<debug, pc, req, width, height, img, resp, file, wrote>>

InFlight(r) == pc[r] \in {"Received", "Validated", "Decoded", "Resized", "Saving", "Encoded"}

Done(r) == pc[r] \in {"Responded", "Failed"}

Init ==
    /\ debug \in BOOLEAN
    /\ pc = [r \in Requests |-> "Idle"]
    /\ req = [r \in Requests |-> NoRequest]
    /\ width = [r \in Requests |-> 0]
    /\ height = [r \in Requests |-> 0]
    /\ img = [r \in Requests |-> NoImage]
    /\ resp = [r \in Requests |-> NoResponse]
    /\ file = NoContent
    /\ wrote = {}

----------------------------------------------------------------------------
(* What Flask answers when the handler raises *)

\* request.files[...] and request.form[...] raise BadRequestKeyError, an
\* HTTPException with code 400, which Flask answers itself unless the app
\* runs in debug mode, where key errors are trapped and end as any other
\* exception does; every other exception is answered 500.
StatusOf(exc, dbg) ==
    IF exc = "BadRequestKeyError" /\ ~dbg THEN 400 ELSE 500

\* A handler that answers a failure with whatever output.jpg holds.
AbortSendsStale(r, exc, line) ==
    /\ pc' = [pc EXCEPT ![r] = "Failed"]
    /\ resp' = [resp EXCEPT ![r] =
                   [status |-> StatusOf(exc, debug), ctype |-> "image/jpeg",
                    body |-> file, exc |-> exc, line |-> line]]
    /\ img' = [img EXCEPT ![r] = NoImage]

\* The handler of r raises exc at the given line: no send_file is reached.
Abort(r, exc, line) ==
    /\ pc' = [pc EXCEPT ![r] = "Failed"]
    /\ resp' = [resp EXCEPT ![r] =
                   [status |-> StatusOf(exc, debug), ctype |-> "text/html",
                    body |-> NoContent, exc |-> exc, line |-> line]]
    /\ img' = [img EXCEPT ![r] = NoImage]

----------------------------------------------------------------------------
(* The handler, step by step *)

\* A POST /process arrives.
Receive(r) ==
    /\ pc[r] = "Idle"
    /\ \E i \in Inputs : req' = [req EXCEPT ![r] = i]
    /\ pc' = [pc EXCEPT ![r] = "Received"]
    /\ UNCHANGED <<debug, width, height, img, resp, file, wrote>>

\* Lines 12-14: the three field lookups and the two int() calls, in order.
Validate(r) ==
    /\ pc[r] = "Received"
    /\ LET q  == req[r]
           pw == PyInt(q.width.text)
           ph == PyInt(q.height.text)
       IN  IF q.image.kind = "absent" THEN
               Abort(r, "BadRequestKeyError", 12) /\ UNCHANGED <<width, height>>
           ELSE IF ~q.width.present THEN
               Abort(r, "BadRequestKeyError", 13) /\ UNCHANGED <<width, height>>
           ELSE IF ~pw.ok THEN
               Abort(r, "ValueError", 13) /\ UNCHANGED <<width, height>>
           ELSE IF ~q.height.present THEN
               Abort(r, "BadRequestKeyError", 14)
               /\ width' = [width EXCEPT ![r] = pw.val] /\ UNCHANGED height
           ELSE IF ~ph.ok THEN
               Abort(r, "ValueError", 14)
               /\ width' = [width EXCEPT ![r] = pw.val] /\ UNCHANGED height
           ELSE
               /\ width' = [width EXCEPT ![r] = pw.val]
               /\ height' = [height EXCEPT ![r] = ph.val]
               /\ pc' = [pc EXCEPT ![r] = "Validated"]
               /\ UNCHANGED <<img, resp>>
    /\ UNCHANGED <<debug, req, file, wrote>>

\* Line 16: Image(file=image) reads and decodes the upload.
Decode(r) ==
    /\ pc[r] = "Validated"
    /\ IF req[r].image.kind = "image"
       THEN /\ img' = [img EXCEPT ![r] =
                          [pix |-> req[r].image.pix, fmt |-> req[r].image.fmt,
                           w |-> req[r].image.w, h |-> req[r].image.h]]
            /\ pc' = [pc EXCEPT ![r] = "Decoded"]
            /\ UNCHANGED resp
       ELSE Abort(r, "MissingDelegateError", 16)
    /\ UNCHANGED <<debug, req, width, height, file, wrote>>

\* img.resize(w, h): the picture scaled to exactly w by h, whatever its
\* proportions were.
Resized(i, w, h) == [i EXCEPT !.w = w, !.h = h]

\* Line 17: wand refuses a width or height below 1 with ValueError.
Resize(r) ==
    /\ pc[r] = "Decoded"
    /\ IF width[r] >= 1 /\ height[r] >= 1
       THEN /\ img' = [img EXCEPT ![r] = Resized(img[r], width[r], height[r])]
            /\ pc' = [pc EXCEPT ![r] = "Resized"]
            /\ UNCHANGED resp
       ELSE Abort(r, "ValueError", 17)
    /\ UNCHANGED <<debug, req, width, height, file, wrote>>

\* The largest width or height the JPEG encoder writes.
JpegMaxDimension == 65500

\* A save that keeps the format of the upload.
SaveFormatKeepsSource(i) == i.fmt

\* The format img.save writes: that of the file name's extension, .jpg.
SaveFormat(i) == "JPEG"

\* What img.save leaves in the file when it completes.
Encoded(i) ==
    [exists |-> TRUE, pix |-> i.pix, w |-> i.w, h |-> i.h, fmt |-> SaveFormat(i),
     complete |-> TRUE]

\* What the file holds while img.save is writing it.
Partial(i) == [Encoded(i) EXCEPT !.complete = FALSE]

\* Line 18, first half: img.save opens output.jpg for writing, which
\* truncates whatever the file held.
SaveBegin(r) ==
    /\ pc[r] = "Resized"
    /\ file' = Partial(img[r])
    /\ wrote' = wrote \cup {r}
    /\ pc' = [pc EXCEPT ![r] = "Saving"]
    /\ UNCHANGED <<debug, req, width, height, img, resp>>

\* A save whose encoded bytes never reach output.jpg.
SaveNotFlushed(old, i) == old

\* What a completed save leaves in output.jpg.
SaveResult(old, i) == Encoded(i)

\* Line 18, second half: the encoder writes the picture, or refuses it (a
\* dimension above JpegMaxDimension) and leaves the truncated file behind.
SaveEnd(r) ==
    /\ pc[r] = "Saving"
    /\ IF img[r].w <= JpegMaxDimension /\ img[r].h <= JpegMaxDimension
       THEN /\ file' = SaveResult(file, img[r])
            /\ pc' = [pc EXCEPT ![r] = "Encoded"]
            /\ img' = [img EXCEPT ![r] = NoImage]
            /\ UNCHANGED resp
       ELSE Abort(r, "CoderError", 18) /\ UNCHANGED file
    /\ UNCHANGED <<debug, req, width, height, wrote>>

\* The Content-Type of an encoded format.
MimeOf(fmt) ==
    CASE fmt = "JPEG" -> "image/jpeg"
      [] fmt = "PNG"  -> "image/png"
      [] OTHER        -> "application/octet-stream"

\* A handler that sends output.jpg without waiting for its own save.
SendBeforeSave(r) ==
    /\ pc[r] \in {"Resized", "Encoded"}
    /\ file.exists
    /\ resp' = [resp EXCEPT ![r] =
                   [status |-> 200, ctype |-> "image/jpeg", body |-> file,
                    exc |-> None, line |-> 20]]
    /\ pc' = [pc EXCEPT ![r] = "Responded"]
    /\ UNCHANGED <<debug, req, width, height, img, file, wrote>>

\* Line 20: send_file('output.jpg', mimetype='image/jpeg') answers 200 with
\* what output.jpg holds at that moment.  The handler has saved the file
\* before and nothing ever removes it, so the file exists.
Send(r) ==
    /\ pc[r] = "Encoded"
    /\ file.exists
    /\ resp' = [resp EXCEPT ![r] =
                   [status |-> 200, ctype |-> "image/jpeg", body |-> file,
                    exc |-> None, line |-> 20]]
    /\ pc' = [pc EXCEPT ![r] = "Responded"]
    /\ UNCHANGED <<debug, req, width, height, img, file, wrote>>

Handler(r) ==
    \/ Validate(r)
    \/ Decode(r)
    \/ Resize(r)
    \/ SaveBegin(r)
    \/ SaveEnd(r)
    \/ Send(r)

----------------------------------------------------------------------------
(* Specifications *)

\* The threaded server: a request may arrive, and any handler may take its
\* next step, at any time.
Next ==
    \/ \E r \in Requests : Receive(r)
    \/ \E r \in Requests : Handler(r)

Spec == Init /\ [][Next]_vars

\* Every thread that can run is eventually scheduled.
FairSpec == Spec /\ \A r \in Requests : WF_vars(Handler(r))

\* One request at a time: a request arrives only when no handler is running.
SeqReceive(r) ==
    /\ \A s \in Requests : ~InFlight(s)
    /\ Receive(r)

SeqNext ==
    \/ \E r \in Requests : SeqReceive(r)
    \/ \E r \in Requests : Handler(r)

SeqSpec == Init /\ [][SeqNext]_vars


----------------------------------------------------------------------------
(* Vocabulary of the properties *)

Arrived(r) == pc[r] # "Idle"

Responded(r) == pc[r] = "Responded"

Failed(r) == pc[r] = "Failed"

\* Line 16 has been executed for r, whether or not it raised.
DecodeInvoked(r) ==
    \/ pc[r] \in {"Decoded", "Resized", "Saving", "Encoded", "Responded"}
    \/ Failed(r) /\ resp[r].line >= 16

\* The integers the form's width and height stand for, when they are integers.
WidthOf(q) == PyInt(q.width.text).val
HeightOf(q) == PyInt(q.height.text).val

Numeric(q) ==
    /\ q.width.present /\ PyInt(q.width.text).ok
    /\ q.height.present /\ PyInt(q.height.text).ok

\* A request that asks for a picture the handler can produce.
Valid(q) ==
    /\ q.image.kind = "image"
    /\ Numeric(q)
    /\ WidthOf(q) \in 1..JpegMaxDimension
    /\ HeightOf(q) \in 1..JpegMaxDimension

\* A request that is wrong in one of the ways a client can get it wrong.
BadInput(q) ==
    \/ q.image.kind # "image"
    \/ ~Numeric(q)

\* The picture request r asked for: its own upload, stretched to the width
\* and height of its own form, as a JPEG file.
Expected(r) ==
    [exists |-> TRUE, pix |-> req[r].image.pix, w |-> WidthOf(req[r]),
     h |-> HeightOf(req[r]), fmt |-> "JPEG", complete |-> TRUE]

\* The handler states of the specification's state machine, in order.  The
\* handler is still in Resized while img.save is writing.
Stage(p) ==
    CASE p = "Idle"      -> 0
      [] p = "Received"  -> 1
      [] p = "Validated" -> 2
      [] p = "Decoded"   -> 3
      [] p = "Resized"   -> 4
      [] p = "Saving"    -> 4
      [] p = "Encoded"   -> 5
      [] p = "Responded" -> 6
      [] OTHER           -> 7

----------------------------------------------------------------------------
(* The claims *)

\* C1: of two requests carrying different images, each one's response holds
\* the resized output of its own image and never that of the other request,
\* however the handlers' steps interleave.
C1_OwnOutputUnderInterleaving ==
    \A r, s \in Requests :
        (/\ r # s
         /\ Arrived(s)
         /\ Responded(r)
         /\ req[r].image.pix # req[s].image.pix)
        => /\ resp[r].body = Expected(r)
           /\ resp[r].body.pix # req[s].image.pix

\* C2: a request whose width or height is an integer <= 0 fails without the
\* decode step (line 16) ever being invoked for it.
C2_NoDecodeForBadDimensions ==
    \A r \in Requests :
        (/\ Arrived(r)
         /\ Numeric(req[r])
         /\ (WidthOf(req[r]) <= 0 \/ HeightOf(req[r]) <= 0))
        => /\ ~DecodeInvoked(r)
           /\ ~Responded(r)

\* C3: a request with a decodable image and a valid width and height is
\* answered 200 with a picture of exactly that width and height.
C3_ValidRequestGetsExactDimensions ==
    \A r \in Requests :
        (Done(r) /\ Valid(req[r]))
        => /\ Responded(r)
           /\ resp[r].status = 200
           /\ resp[r].body.w = WidthOf(req[r])
           /\ resp[r].body.h = HeightOf(req[r])

\* C4: a failure caused by bad client input (missing image, missing or
\* non-numeric width or height, undecodable upload) is answered 4xx, never
\* 5xx.
C4_BadInputIsClientError ==
    \A r \in Requests :
        (Failed(r) /\ BadInput(req[r]))
        => resp[r].status \in 400..499

\* C5: a request whose upload exceeds the size cap fails with FileTooLarge
\* and its file is never decoded.
C5_OversizeNeverDecoded ==
    \A r \in Requests :
        (Arrived(r) /\ req[r].image.overCap)
        => /\ ~DecodeInvoked(r)
           /\ ~Responded(r)

\* C6: each handler moves through Received, Validated, Decoded, Resized,
\* Encoded, Responded in that order, one state at a time, or to Failed; a
\* response file is sent only by a handler whose own save has completed; and
\* every request received is eventually Responded or Failed.
C6_StepOrder ==
    \A r \in Requests :
        \/ pc'[r] = pc[r]
        \/ pc'[r] = "Failed" /\ InFlight(r)
        \/ pc'[r] # "Failed" /\ Stage(pc'[r]) \in {Stage(pc[r]), Stage(pc[r]) + 1}
                             /\ (pc'[r] = "Responded" => pc[r] = "Encoded" /\ r \in wrote)

C6_StateMachine ==
    /\ [][C6_StepOrder]_vars
    /\ \A r \in Requests : (pc[r] = "Received") ~> Done(r)

C6_Witness ==
    /\ \E r \in Requests : Responded(r)
    /\ \E r \in Requests : Failed(r)

\* C7: once requests have been served and no handler is running, no output
\* artifact is left behind.
C7_NoArtifactLeft ==
    ((\E r \in Requests : Done(r)) /\ (\A r \in Requests : ~InFlight(r)))
    => ~file.exists

\* C8: every successful response is 200 and declares the Content-Type of the
\* format its body was encoded in (JPEG, image/jpeg), whatever the format of
\* the upload.
C8_ContentTypeMatchesEncoding ==
    \A r \in Requests :
        Responded(r)
        => /\ resp[r].status = 200
           /\ resp[r].body.exists
           /\ resp[r].ctype = MimeOf(resp[r].body.fmt)

C8_Witness ==
    \E r \in Requests : Responded(r) /\ req[r].image.fmt = "PNG"

\* C9: when requests are handled one at a time, every successful response
\* carries the file its own save wrote, never an earlier request's output.
C9_SequentialOwnOutput ==
    \A r \in Requests :
        Responded(r) => resp[r].body = Expected(r)

C9_Witness ==
    \E r, s \in Requests :
        /\ Responded(r) /\ Responded(s)
        /\ Expected(r) # Expected(s)
        /\ file = Expected(s)

=============================================================================
